---- MODULE Spec2Model ----
(***************************************************************************)
(* Model of the slack-r bot (src/src/bot/mod.rs, src/src/dates.rs,         *)
(* src/src/main.rs, src/src/bot/config.rs): the `joke` command, its date   *)
(* resolution, its duplicate guard and the pagination of the               *)
(* scheduled-message list; the `reroll`, `scheduled`, `cancel`, `add` and  *)
(* `config` commands; the configuration file.                              *)
(*                                                                         *)
(* Specifications.  Spec: joke with valid dates.  SpecBot: every command   *)
(* of the command line, joke with any date strings.  SpecDates: the date   *)
(* functions called on their own.  SpecConfig: the configuration file      *)
(* read, edited and saved.                                                 *)
(*                                                                         *)
(* Time.  A DateTime<Local> is an instant counted in ticks; a day has      *)
(* TicksPerDay ticks, a NaiveTime is a tick of the day, a calendar date is *)
(* a day number and day 0 is a Monday.  The local timezone has a fixed UTC *)
(* offset: daylight-saving transitions are not modelled, so                *)
(* Duration::days(n) moves an instant by n calendar days and keeps its     *)
(* time of day.  timestamp() of an instant is the instant itself.          *)
(***************************************************************************)
EXTENDS Integers, Sequences, FiniteSets, TLC

VARIABLES
    config,                     \* SlackBot.config (BotConfig)
    now,                        \* the system clock, Local::now()
    pc,                         \* position of the invocation
    input_date_args,            \* joke: --day values
    scheduled_day_arg,          \* joke: --post_on, <<>> for None, <<d>> for Some(d)
    target_datetimes,           \* joke: result of get_target_dates
    request_cursor,             \* list_scheduled_messages: request.cursor
    pages,                      \* number of page requests sent so far
    already_scheduled_messages, \* list_scheduled_messages: all_responses
    idx,                        \* joke, cancel: number of dates / ids processed
    messages_to_schedule,       \* joke: timestamps pushed in this batch
    scheduled,                  \* joke: the JokeSuccess values returned
    requests,                   \* schedule_message requests received by Slack
    candidates,                 \* joke: the post_at computed for each target
    outcomes,                   \* what happened to each target, id or call
    exclude,                    \* reroll: the members the user rejected
    selected_member,            \* reroll: <<>> or <<m>>, the last member drawn
    proposed,                   \* reroll: the members shown to the user
    file,                       \* the configuration file on disk
    todo,                       \* main / config: the steps still to run
    file_ops,                   \* reads and writes of the configuration file
    members_fetched,            \* list_members_for_channel: members
    id_list,                    \* cancel: the ids given on the command line
    delete_requests,            \* delete_scheduled_message requests sent
    options,                    \* add / config: the options of the command
    command                     \* main: the subcommand dispatched, "" before

vars == <<config, now, pc, input_date_args, scheduled_day_arg,
          target_datetimes, request_cursor, pages,
          already_scheduled_messages, idx, messages_to_schedule, scheduled,
          requests, candidates, outcomes, exclude, selected_member,
          proposed, file, todo, file_ops, members_fetched, id_list,
          delete_requests, options, command>>

\* the locals of SlackBot::reroll
rerollVars == <<exclude, selected_member, proposed>>

\* the state of the other commands: add, config, scheduled, cancel
adminVars == <<todo, file_ops, members_fetched, id_list, delete_requests,
               options, command>>

\* no option given
NoOptions == [members |-> <<>>, channel |-> <<>>, target_time |-> <<>>]

----------------------------------------------------------------------------
(* Bounds of the model *)

TicksPerDay == 2
MaxAdvanceDays == 2
MaxDates == 2
MaxPages == 2

None == "None"

Times == 0 .. (TicksPerDay - 1)

\* the invocation starts on the Friday of the second week
StartDays == {11}
\* the clock stops when the Saturday begins
LastInstant == 12 * TicksPerDay
\* --day values: that Saturday and Sunday, and the Tuesday after
InputDates == {12, 13, 15}
\* --post_on values: a Saturday and the Monday after
PostOnDates == {12, 14}
Rosters == {<<>>, <<"U1", "U2">>}

----------------------------------------------------------------------------
(* chrono *)

WeekdayNames == <<"Mon", "Tue", "Wed", "Thu", "Fri", "Sat", "Sun">>

\* Date<Local>::and_time
and_time(d, t) == d * TicksPerDay + t

\* DateTime<Local>::date
date(dt) == dt \div TicksPerDay

\* DateTime<Local>::time
time(dt) == dt % TicksPerDay

\* Datelike::weekday
weekday(d) == WeekdayNames[(d % 7) + 1]

\* chrono::Duration::days
Duration_days(n) == n * TicksPerDay

\* dates.rs: IsWeekday::is_weekday
is_weekday(dt) == weekday(date(dt)) \in {"Mon", "Tue", "Wed", "Thu", "Fri"}

----------------------------------------------------------------------------
(* dates.rs *)

\* A date string "YYYY-MM-DD" is modelled by the day number it denotes; a
\* string that DateTime::parse_from_str refuses is modelled by NotADate.
NotADate == 0 - 1

\* TRUE when convert_date_string_to_local returns Ok
date_string_parses(input_date) == input_date # NotADate

\* the Ok value of convert_date_string_to_local
convert_date_string_to_local(input_date, t) == and_time(input_date, time(t))

MaxFutureDays == 120

\* mutant: `>` instead of `>=` on the upper limit
validate_date_input_inclusive(input_date, clock) ==
    LET today == clock
        parsed_date == convert_date_string_to_local(input_date, today)
    IN  IF ~date_string_parses(input_date) THEN "Not a date"
        ELSE IF parsed_date <= today THEN "must be in the future"
        ELSE IF parsed_date > today + Duration_days(MaxFutureDays)
             THEN "must not be more than 120 days in the future"
             ELSE "Ok"

validate_date_input(input_date, clock) ==
    LET today == clock
        parsed_date == convert_date_string_to_local(input_date, today)
    IN  IF ~date_string_parses(input_date) THEN "Not a date"
        ELSE IF parsed_date <= today THEN "must be in the future"
        ELSE IF parsed_date >= today + Duration_days(MaxFutureDays)
             THEN "must not be more than 120 days in the future"
             ELSE "Ok"

----------------------------------------------------------------------------
(* bot/mod.rs: date resolution *)

today_with_set_time(t, clock) == and_time(date(clock), t)

\* mutant: a Saturday is moved by one day only
target_weekend_shift_one_day(unfiltered) ==
    CASE weekday(date(unfiltered)) = "Sat" -> unfiltered + Duration_days(1)
      [] weekday(date(unfiltered)) = "Sun" -> unfiltered + Duration_days(1)
      [] OTHER -> unfiltered

\* the weekend shift of get_target_dates
target_weekend_shift(unfiltered) ==
    CASE weekday(date(unfiltered)) = "Sat" -> unfiltered + Duration_days(2)
      [] weekday(date(unfiltered)) = "Sun" -> unfiltered + Duration_days(1)
      [] OTHER -> unfiltered

\* TRUE when an `unwrap` of get_target_dates panics on a date string
get_target_dates_panics(args) ==
    \E i \in 1 .. Len(args) : ~date_string_parses(args[i])

\* mutant: without input the target is today
get_target_dates_today(cfg, args, clock) ==
    LET today_with_target_time == today_with_set_time(cfg.target_time, clock)
        unfiltered_dates ==
            IF args = <<>>
            THEN << and_time(date(today_with_target_time), cfg.target_time) >>
            ELSE [i \in 1 .. Len(args) |->
                     convert_date_string_to_local(args[i], today_with_target_time)]
    IN  [i \in 1 .. Len(unfiltered_dates) |->
            target_weekend_shift(unfiltered_dates[i])]

get_target_dates(cfg, args, clock) ==
    LET today_with_target_time == today_with_set_time(cfg.target_time, clock)
        unfiltered_dates ==
            IF args = <<>>
            THEN << and_time(date(today_with_target_time) + 1, cfg.target_time) >>
            ELSE [i \in 1 .. Len(args) |->
                     convert_date_string_to_local(args[i], today_with_target_time)]
    IN  [i \in 1 .. Len(unfiltered_dates) |->
            target_weekend_shift(unfiltered_dates[i])]

\* mutant: a weekend day is moved forward to the following Monday
post_at_from_target_forward(cfg, target_date) ==
    LET unfiltered == target_date - Duration_days(cfg.advance_days)
    IN  CASE weekday(date(unfiltered)) = "Sun" -> unfiltered + Duration_days(1)
          [] weekday(date(unfiltered)) = "Sat" -> unfiltered + Duration_days(2)
          [] OTHER -> unfiltered

\* mutant: a Sunday is moved back by one day only
post_at_from_target_sunday_one_day(cfg, target_date) ==
    LET unfiltered == target_date - Duration_days(cfg.advance_days)
    IN  CASE weekday(date(unfiltered)) = "Sun" -> unfiltered - Duration_days(1)
          [] weekday(date(unfiltered)) = "Sat" -> unfiltered - Duration_days(1)
          [] OTHER -> unfiltered

\* mutant: post_time is applied to the computed day
post_at_from_target_with_post_time(cfg, target_date) ==
    LET unfiltered == and_time(date(target_date) - cfg.advance_days,
                               cfg.post_time)
    IN  CASE weekday(date(unfiltered)) = "Sun" -> unfiltered - Duration_days(2)
          [] weekday(date(unfiltered)) = "Sat" -> unfiltered - Duration_days(1)
          [] OTHER -> unfiltered

\* the computed branch of get_post_at_date
post_at_from_target(cfg, target_date) ==
    LET unfiltered == target_date - Duration_days(cfg.advance_days)
    IN  CASE weekday(date(unfiltered)) = "Sun" -> unfiltered - Duration_days(2)
          [] weekday(date(unfiltered)) = "Sat" -> unfiltered - Duration_days(1)
          [] OTHER -> unfiltered

\* the explicit branch of get_post_at_date: the candidate instant
post_at_time(cfg, post_on_day, clock) ==
    convert_date_string_to_local(post_on_day,
                                 today_with_set_time(cfg.post_time, clock))

\* mutant: an explicit post_on equal to the target is accepted
get_post_at_date_accepts_equal(cfg, target_date, post_on_day_arg, clock) ==
    IF post_on_day_arg # <<>>
    THEN IF post_at_time(cfg, post_on_day_arg[1], clock) > target_date
         THEN [panic |-> TRUE, at |-> 0]
         ELSE [panic |-> FALSE,
               at |-> post_at_time(cfg, post_on_day_arg[1], clock)]
    ELSE [panic |-> FALSE, at |-> post_at_from_target(cfg, target_date)]

\* get_post_at_date: [panic |-> TRUE] stands for the panic
\* "Scheduled time is after the target day!"
get_post_at_date(cfg, target_date, post_on_day_arg, clock) ==
    IF post_on_day_arg # <<>>
    THEN IF post_at_time(cfg, post_on_day_arg[1], clock) >= target_date
         THEN [panic |-> TRUE, at |-> 0]
         ELSE [panic |-> FALSE,
               at |-> post_at_time(cfg, post_on_day_arg[1], clock)]
    ELSE [panic |-> FALSE, at |-> post_at_from_target(cfg, target_date)]

----------------------------------------------------------------------------
(* bot/config.rs: the configuration store.  In this part a NaiveTime is    *)
(* its number of seconds from midnight, an Option is <<>> or <<v>>, and    *)
(* the text of the file is the JSON document it parses to.                 *)

\* NaiveTime::from_hms
NaiveTime_from_hms(h, m, s) == (h * 60 + m) * 60 + s

\* impl Default for BotConfig
BotConfig_default ==
    [members |-> <<>>, selected |-> <<>>, channel |-> "",
     target_time |-> NaiveTime_from_hms(11, 30, 0),
     post_time |-> NaiveTime_from_hms(11, 30, 0),
     advance_days |-> 1, instant_delay |-> 45, token |-> <<>>, id |-> ""]

\* serde_json::Value: a key that is absent, null, a number, a string, a
\* string of the form "HH:MM:SS" (hms holds its three numbers), an array of
\* strings
JsonMissing == [type |-> "missing", num |-> 0, str |-> "", hms |-> <<>>, arr |-> <<>>]
JsonNull == [type |-> "null", num |-> 0, str |-> "", hms |-> <<>>, arr |-> <<>>]
JsonNumber(n) == [type |-> "number", num |-> n, str |-> "", hms |-> <<>>, arr |-> <<>>]
JsonString(s) == [type |-> "string", num |-> 0, str |-> s, hms |-> <<>>, arr |-> <<>>]
JsonTimeString(t) == [type |-> "string", num |-> 0, str |-> "", hms |-> t, arr |-> <<>>]
JsonArray(a) == [type |-> "array", num |-> 0, str |-> "", hms |-> <<>>, arr |-> a]

\* Serialize for NaiveTime: "%H:%M:%S"
NaiveTime_to_string(t) == << t \div 3600, (t \div 60) % 60, t % 60 >>

\* Deserialize for NaiveTime: <<>> when the string is not a time of day
NaiveTime_from_string(hms) ==
    IF /\ Len(hms) = 3
       /\ hms[1] \in 0 .. 23
       /\ hms[2] \in 0 .. 59
       /\ hms[3] \in 0 .. 59
    THEN << NaiveTime_from_hms(hms[1], hms[2], hms[3]) >>
    ELSE <<>>

\* mutant: a missing token is written as an empty string
BotConfig_to_json_empty_token(cfg) ==
    [syntax_ok |-> TRUE,
     members |-> JsonArray(cfg.members),
     selected |-> JsonArray(cfg.selected),
     channel |-> JsonString(cfg.channel),
     target_time |-> JsonTimeString(NaiveTime_to_string(cfg.target_time)),
     advance_days |-> JsonNumber(cfg.advance_days),
     post_time |-> JsonTimeString(NaiveTime_to_string(cfg.post_time)),
     instant_delay |-> JsonNumber(cfg.instant_delay),
     token |-> IF cfg.token = <<>> THEN JsonString("")
               ELSE JsonString(cfg.token[1]),
     id |-> JsonString(cfg.id)]

\* serde_json::to_string_pretty(&self) with the derived Serialize
BotConfig_to_json(cfg) ==
    [syntax_ok |-> TRUE,
     members |-> JsonArray(cfg.members),
     selected |-> JsonArray(cfg.selected),
     channel |-> JsonString(cfg.channel),
     target_time |-> JsonTimeString(NaiveTime_to_string(cfg.target_time)),
     advance_days |-> JsonNumber(cfg.advance_days),
     post_time |-> JsonTimeString(NaiveTime_to_string(cfg.post_time)),
     instant_delay |-> JsonNumber(cfg.instant_delay),
     token |-> IF cfg.token = <<>> THEN JsonNull
               ELSE JsonString(cfg.token[1]),
     id |-> JsonString(cfg.id)]

\* the fields of a document, read as the derived Deserialize reads them
BotConfig_fields(doc) ==
    [members |-> doc.members.arr, selected |-> doc.selected.arr,
     channel |-> doc.channel.str,
     target_time |->
         IF NaiveTime_from_string(doc.target_time.hms) = <<>>
         THEN BotConfig_default.target_time
         ELSE NaiveTime_from_string(doc.target_time.hms)[1],
     post_time |->
         IF NaiveTime_from_string(doc.post_time.hms) = <<>>
         THEN BotConfig_default.post_time
         ELSE NaiveTime_from_string(doc.post_time.hms)[1],
     advance_days |-> doc.advance_days.num,
     instant_delay |-> doc.instant_delay.num,
     token |-> IF doc.token.type = "string" THEN <<doc.token.str>> ELSE <<>>,
     id |-> doc.id.str]

\* mutant: a field the document does not give keeps its default, the others
\* are read (what #[serde(default)] would do)
BotConfig_from_json_lenient(doc) ==
    IF doc.syntax_ok THEN << BotConfig_fields(doc) >> ELSE <<>>

\* serde_json::from_str::<BotConfig>: <<>> for Err, <<cfg>> for Ok(cfg).
\* Every key but the Option is required and must have its type.
BotConfig_from_json(doc) ==
    IF /\ doc.syntax_ok
       /\ doc.members.type = "array"
       /\ doc.selected.type = "array"
       /\ doc.channel.type = "string"
       /\ doc.target_time.type = "string"
       /\ NaiveTime_from_string(doc.target_time.hms) # <<>>
       /\ doc.advance_days.type = "number"
       /\ doc.post_time.type = "string"
       /\ NaiveTime_from_string(doc.post_time.hms) # <<>>
       /\ doc.instant_delay.type = "number"
       /\ doc.token.type \in {"missing", "null", "string"}
       /\ doc.id.type = "string"
    THEN << BotConfig_fields(doc) >>
    ELSE <<>>

\* the file on disk: kind is "absent", "permission_denied" (File::open
\* fails), "unreadable" (read_to_string fails) or "text"
AbsentFile == [kind |-> "absent", doc |-> BotConfig_to_json(BotConfig_default)]
DeniedFile ==
    [kind |-> "permission_denied", doc |-> BotConfig_to_json(BotConfig_default)]
UnreadableFile ==
    [kind |-> "unreadable", doc |-> BotConfig_to_json(BotConfig_default)]
TextFile(doc) == [kind |-> "text", doc |-> doc]

\* the value of `file` in the commands that run after the file was read
NotRead == [kind |-> "not_read"]

\* BotConfig::from_file: <<>> for Err(CorruptedConfig)
BotConfig_from_file(f) ==
    IF f.kind = "unreadable" THEN <<>> ELSE BotConfig_from_json(f.doc)

\* Result::unwrap_or_default
unwrap_or_default(result) ==
    IF result = <<>> THEN BotConfig_default ELSE result[1]

\* BotConfig::new
BotConfig_new(f) ==
    IF f.kind \in {"absent", "permission_denied"}
    THEN BotConfig_default
    ELSE unwrap_or_default(BotConfig_from_file(f))

----------------------------------------------------------------------------
(* State *)

Configs ==
    [members : Rosters, target_time : Times, post_time : Times,
     advance_days : 0 .. MaxAdvanceDays]

Init ==
    /\ config \in Configs
    /\ now \in {and_time(d, t) : d \in StartDays, t \in Times}
    /\ pc = "cli"
    /\ input_date_args = <<>>
    /\ scheduled_day_arg = <<>>
    /\ target_datetimes = <<>>
    /\ request_cursor = None
    /\ pages = 0
    /\ already_scheduled_messages = <<>>
    /\ idx = 0
    /\ messages_to_schedule = <<>>
    /\ scheduled = <<>>
    /\ requests = <<>>
    /\ candidates = <<>>
    /\ outcomes = <<>>
    /\ exclude = <<>>
    /\ selected_member = <<>>
    /\ proposed = <<>>
    /\ file = NotRead
    /\ todo = <<>>
    /\ file_ops = <<"read">>
    /\ members_fetched = <<>>
    /\ id_list = <<>>
    /\ delete_requests = <<>>
    /\ options = NoOptions
    /\ command = ""

\* the clock advances while joke runs; time that passes before the loop is
\* time the invocation started later
Tick ==
    /\ pc = "loop"
    /\ UNCHANGED adminVars
    /\ now < LastInstant
    /\ now' = now + 1
    /\ UNCHANGED <<rerollVars, file>>
    /\ UNCHANGED <<config, pc, input_date_args, scheduled_day_arg,
                   target_datetimes, request_cursor, pages,
                   already_scheduled_messages, idx, messages_to_schedule,
                   scheduled, requests, candidates, outcomes>>

----------------------------------------------------------------------------
(* main.rs: the joke subcommand, up to the first await of SlackBot::joke *)

\* what the user may type after --day
DateStrings == InputDates \cup {NotADate}

InputArgLists ==
    UNION {[1 .. n -> DateStrings] : n \in 0 .. MaxDates}

PostOnArgs == {<<>>} \cup {<<d>> : d \in PostOnDates}

\* mutant: the command line is refused only when no --day value is valid
clap_rejects_when_all_fail(args, post_on, clock) ==
    \/ /\ args # <<>>
       /\ \A i \in 1 .. Len(args) :
              validate_date_input(args[i], clock) # "Ok"
    \/ post_on # <<>> /\ validate_date_input(post_on[1], clock) # "Ok"

\* clap runs validate_date_input on every --day value and on --post_on and
\* exits with an error when one of them is refused
clap_rejects(args, post_on, clock) ==
    \/ \E i \in 1 .. Len(args) : validate_date_input(args[i], clock) # "Ok"
    \/ post_on # <<>> /\ validate_date_input(post_on[1], clock) # "Ok"

\* the command line passes clap, then main calls bot.joke, which starts
\* with get_target_dates.
JokeCommand ==
    /\ pc = "cli"
    /\ command' = "joke"
    /\ todo' = <<"loop">>
    /\ UNCHANGED <<file_ops, members_fetched, id_list, delete_requests,
                   options>>
    /\ \E args \in InputArgLists, post_on \in PostOnArgs :
        /\ ~clap_rejects(args, post_on, now)
        /\ input_date_args' = args
        /\ scheduled_day_arg' = post_on
        /\ IF get_target_dates_panics(args)
           THEN /\ target_datetimes' = <<>>
                /\ pc' = "panicked"
           ELSE /\ target_datetimes' = get_target_dates(config, args, now)
                /\ pc' = "fetch"
    /\ UNCHANGED <<rerollVars, file>>
    /\ UNCHANGED <<config, now, request_cursor, pages,
                   already_scheduled_messages, idx, messages_to_schedule,
                   scheduled, requests, candidates, outcomes>>

\* clap refuses the command line: the process exits before the bot is built
JokeCommandRejected ==
    /\ pc = "cli"
    /\ command' = "joke"
    /\ UNCHANGED <<todo, file_ops, members_fetched, id_list, delete_requests,
                   options>>
    /\ \E args \in InputArgLists, post_on \in PostOnArgs :
        /\ clap_rejects(args, post_on, now)
        /\ input_date_args' = args
        /\ scheduled_day_arg' = post_on
    /\ pc' = "rejected"
    /\ UNCHANGED <<rerollVars, file>>
    /\ UNCHANGED <<config, now, target_datetimes, request_cursor, pages,
                   already_scheduled_messages, idx, messages_to_schedule,
                   scheduled, requests, candidates, outcomes>>

----------------------------------------------------------------------------
(* bot/mod.rs: list_scheduled_messages, one page request per step.  The   *)
(* request and the page count are locals of the function: they are reset  *)
(* when it returns.                                                       *)

\* the messages Slack may hold for the channel (ScheduledMessageObjectRaw)
RemoteMessages ==
    {[id |-> "Q1", post_at |-> and_time(11, 0)],
     [id |-> "Q2", post_at |-> and_time(14, TicksPerDay - 1)]}

PageItems == {<<>>} \cup {<<m>> : m \in RemoteMessages}

\* SlackApiResponse<ScheduledMessagesListRaw>: content is Ok or Err,
\* response_metadata is absent or present, next_cursor is None, "" or a cursor
PageResponses ==
    [ok : BOOLEAN, scheduled_messages : PageItems,
     response_metadata : {"absent", "present"},
     next_cursor : {None, "", "c1"}]

\* ScheduledMessageObject::from(&ScheduledMessageObjectRaw)
ScheduledMessageObject_from(raw) == [id |-> raw.id, post_at |-> raw.post_at]

\* ScheduledMessageObject::date
message_date(mess) == date(mess.post_at)

\* TRUE when the loop of list_scheduled_messages goes round again
page_continues(resp) ==
    /\ resp.ok
    /\ \/ resp.response_metadata = "absent"
       \/ /\ resp.response_metadata = "present"
          /\ resp.next_cursor \notin {None, ""}

\* one page request and its answer; the Err arm logs the error and leaves
\* the loop
ListScheduledPage ==
    /\ pc = "fetch"
    /\ UNCHANGED command
    /\ \E resp \in PageResponses :
        /\ resp.response_metadata = "absent" => resp.next_cursor = None
        /\ ~resp.ok => /\ resp.scheduled_messages = <<>>
                       /\ resp.response_metadata = "absent"
        /\ page_continues(resp) => pages + 1 < MaxPages
        /\ Len(already_scheduled_messages) + Len(resp.scheduled_messages)
              <= Cardinality(RemoteMessages)
        /\ IF ~resp.ok
           THEN /\ pc' = "fetch_error"
                /\ UNCHANGED <<pages, already_scheduled_messages,
                               request_cursor, todo>>
           ELSE /\ pages' = IF page_continues(resp) THEN pages + 1 ELSE 0
                /\ already_scheduled_messages' =
                      already_scheduled_messages \o
                      [i \in 1 .. Len(resp.scheduled_messages) |->
                          ScheduledMessageObject_from(
                              resp.scheduled_messages[i])]
                /\ request_cursor' =
                      IF ~page_continues(resp) THEN None
                      ELSE IF resp.response_metadata = "present"
                           THEN resp.next_cursor
                           ELSE request_cursor
                /\ pc' = IF page_continues(resp) THEN "fetch" ELSE Head(todo)
                /\ todo' = IF page_continues(resp) THEN todo ELSE Tail(todo)
    /\ UNCHANGED <<file_ops, members_fetched, id_list, delete_requests,
                   options>>
    /\ UNCHANGED <<rerollVars, file>>
    /\ UNCHANGED <<config, now, input_date_args, scheduled_day_arg,
                   target_datetimes, idx, messages_to_schedule, scheduled,
                   requests, candidates, outcomes>>

\* mutant: after an error the messages received so far are dropped
all_responses_after_error_dropped(all_responses) == <<>>

\* what list_scheduled_messages returns after an error: all_responses as
\* the earlier pages filled it
all_responses_after_error(all_responses) == all_responses

\* list_scheduled_messages returns to its caller after the Err arm
ListScheduledReturn ==
    /\ pc = "fetch_error"
    /\ already_scheduled_messages' =
           all_responses_after_error(already_scheduled_messages)
    /\ pages' = 0
    /\ request_cursor' = None
    /\ pc' = Head(todo)
    /\ todo' = Tail(todo)
    /\ UNCHANGED <<config, now, input_date_args, scheduled_day_arg,
                   target_datetimes, idx, messages_to_schedule, scheduled,
                   requests, candidates, outcomes, rerollVars, file,
                   file_ops, members_fetched, id_list, delete_requests,
                   options, command>>

----------------------------------------------------------------------------
(* bot/mod.rs: the loop of SlackBot::joke, one target date per step *)

Range(s) == {s[i] : i \in 1 .. Len(s)}

\* mutant: `all` instead of `any`
already_scheduled_remote_all(messages, post_at) ==
    \A i \in 1 .. Len(messages) : message_date(messages[i]) = date(post_at)

\* already_scheduled_messages.iter().any(|mess| mess.date() == post_at.date())
already_scheduled_remote(messages, post_at) ==
    \E i \in 1 .. Len(messages) : message_date(messages[i]) = date(post_at)

\* mutant: the timestamps of the batch are compared with the date
already_scheduled_local_by_date(in_progress, post_at) ==
    \E i \in 1 .. Len(in_progress) : in_progress[i] = date(post_at)

\* messages_to_schedule.iter().any(|r_post_at| *r_post_at == post_at.timestamp())
already_scheduled_local(in_progress, post_at) ==
    \E i \in 1 .. Len(in_progress) : in_progress[i] = post_at

\* mutant: `<` instead of `<=`
too_late_strict(post_at, clock) == post_at < clock

\* post_at <= Local::now()
too_late(post_at, clock) == post_at <= clock

\* mutant: the batch is not checked for duplicates
check_candidate_without_local(post_at, clock, messages, in_progress, members) ==
    IF too_late(post_at, clock) THEN "too_late"
    ELSE IF already_scheduled_remote(messages, post_at) THEN "remote_duplicate"
    ELSE IF members = <<>> THEN "no_member"
    ELSE "pass"

\* the checks of one candidate, in the order of the code
check_candidate(post_at, clock, messages, in_progress, members) ==
    IF too_late(post_at, clock) THEN "too_late"
    ELSE IF already_scheduled_remote(messages, post_at) THEN "remote_duplicate"
    ELSE IF already_scheduled_local(in_progress, post_at) THEN "local_duplicate"
    ELSE IF members = <<>> THEN "no_member"
    ELSE "pass"

\* where the loop goes at the end of its body, i of n target dates done
next_pc == IF idx + 1 = Len(target_datetimes) THEN "done" ELSE "loop"

\* mutant: a failed check returns from joke (the commented-out `return Err`)
after_continue_returns(i, n) == "done"

\* where the loop goes after a `continue`, i of n target dates done
after_continue(i, n) == IF i = n THEN "done" ELSE "loop"

\* get_post_at_date panics: the process aborts
JokeOrderViolation ==
    /\ pc = "loop"
    /\ UNCHANGED adminVars
    /\ get_post_at_date(config, target_datetimes[idx + 1],
                        scheduled_day_arg, now).panic
    /\ pc' = "panicked"
    /\ outcomes' = Append(outcomes, "order_violation")
    /\ UNCHANGED <<rerollVars, file>>
    /\ UNCHANGED <<config, now, input_date_args, scheduled_day_arg,
                   target_datetimes, request_cursor, pages,
                   already_scheduled_messages, idx, messages_to_schedule,
                   scheduled, requests, candidates>>

\* a check fails: `continue`
JokeSkip ==
    /\ pc = "loop"
    /\ UNCHANGED adminVars
    /\ LET target_date == target_datetimes[idx + 1]
           r == get_post_at_date(config, target_date, scheduled_day_arg, now)
           verdict == check_candidate(r.at, now, already_scheduled_messages,
                                      messages_to_schedule, config.members)
       IN  /\ ~r.panic
           /\ verdict # "pass"
           /\ candidates' = Append(candidates, r.at)
           /\ outcomes' = Append(outcomes, verdict)
    /\ idx' = idx + 1
    /\ pc' = after_continue(idx + 1, Len(target_datetimes))
    /\ UNCHANGED <<rerollVars, file>>
    /\ UNCHANGED <<config, now, input_date_args, scheduled_day_arg,
                   target_datetimes, request_cursor, pages,
                   already_scheduled_messages, messages_to_schedule,
                   scheduled, requests>>

\* all checks pass: a member is drawn, the request is recorded and sent;
\* ProdSlackApiClient::schedule_message unwraps the response, so an error
\* response of Slack panics
JokeSchedule ==
    /\ pc = "loop"
    /\ UNCHANGED adminVars
    /\ LET target_date == target_datetimes[idx + 1]
           r == get_post_at_date(config, target_date, scheduled_day_arg, now)
           verdict == check_candidate(r.at, now, already_scheduled_messages,
                                      messages_to_schedule, config.members)
       IN  /\ ~r.panic
           /\ verdict = "pass"
           /\ candidates' = Append(candidates, r.at)
           /\ messages_to_schedule' = Append(messages_to_schedule, r.at)
           /\ \E member \in Range(config.members), response_ok \in BOOLEAN :
                /\ requests' = Append(requests,
                      [post_at |-> r.at, member |-> member,
                       target_day |-> date(target_date)])
                /\ IF response_ok
                   THEN /\ scheduled' = Append(scheduled,
                              [target_date |-> target_date, post_at |-> r.at,
                               member |-> member])
                        /\ outcomes' = Append(outcomes, "scheduled")
                        /\ idx' = idx + 1
                        /\ pc' = next_pc
                   ELSE /\ outcomes' = Append(outcomes, "api_error")
                        /\ pc' = "panicked"
                        /\ UNCHANGED <<scheduled, idx>>
    /\ UNCHANGED <<rerollVars, file>>
    /\ UNCHANGED <<config, now, input_date_args, scheduled_day_arg,
                   target_datetimes, request_cursor, pages,
                   already_scheduled_messages>>

----------------------------------------------------------------------------
(* bot/mod.rs: SlackBot::reroll *)

\* the locals of SlackBot::joke and of list_scheduled_messages
jokeVars == <<input_date_args, scheduled_day_arg, target_datetimes,
              request_cursor, pages, already_scheduled_messages, idx,
              messages_to_schedule, scheduled, candidates, outcomes>>

\* mutant: the delay is taken as a number of days
Duration_seconds_as_days(n) == n * TicksPerDay

\* chrono::Duration::seconds, in ticks
Duration_seconds(n) == (n * TicksPerDay) \div (24 * 60 * 60)

\* mutant: the first member of the roster is never drawn
select_random_member_from_tail(members) ==
    IF Len(members) <= 1 THEN {<<>>}
    ELSE {<<members[i]>> : i \in 2 .. Len(members)}

\* select_random_member: the values `choose` may return, <<>> for None
select_random_member(members) ==
    IF members = <<>> THEN {<<>>}
    ELSE {<<members[i]>> : i \in 1 .. Len(members)}

\* mutant: the first rejected member is not compared
exclude_contains_from_second(excluded, member) ==
    \E i \in 2 .. Len(excluded) : excluded[i] = member

\* exclude.contains(&selected_member)
exclude_contains(excluded, member) ==
    \E i \in 1 .. Len(excluded) : excluded[i] = member

\* exclude.len() + 1 == len_limit
exclude_reached_limit(excluded, len_limit) == Len(excluded) + 1 = len_limit

\* main dispatches to bot.reroll: `exclude` is empty
RerollCommand ==
    /\ pc = "cli"
    /\ command' = "reroll"
    /\ UNCHANGED <<todo, file_ops, members_fetched, id_list, delete_requests,
                   options>>
    /\ pc' = "select"
    /\ UNCHANGED <<config, now, requests, jokeVars, rerollVars, file>>

\* one round of the loop up to the prompt: a member is drawn; None ends
\* reroll, an excluded member restarts the loop, any other is shown
RerollDraw ==
    /\ pc = "select"
    /\ UNCHANGED adminVars
    /\ \E drawn \in select_random_member(config.members) :
        /\ selected_member' = drawn
        /\ IF drawn = <<>>
           THEN /\ pc' = "no_member"
                /\ UNCHANGED proposed
           ELSE IF exclude_contains(exclude, drawn[1])
           THEN /\ pc' = "select"
                /\ UNCHANGED proposed
           ELSE /\ pc' = "prompt"
                /\ proposed' = Append(proposed, drawn[1])
    /\ UNCHANGED <<config, now, requests, jokeVars, exclude, file>>

\* the user answers the prompt: `y` leaves the loop, anything else excludes
\* the member and checks the limit
RerollAnswer ==
    /\ pc = "prompt"
    /\ UNCHANGED adminVars
    /\ \E answer \in BOOLEAN :
        IF answer
        THEN /\ pc' = "accepted"
             /\ UNCHANGED exclude
        ELSE /\ exclude' = Append(exclude, selected_member[1])
             /\ pc' = IF exclude_reached_limit(exclude', Len(config.members))
                      THEN "excluded_all" ELSE "select"
    /\ UNCHANGED <<config, now, requests, jokeVars, selected_member,
                   proposed, file>>

\* after the loop: the request for the accepted member is sent;
\* schedule_message unwraps the response
RerollSchedule ==
    /\ pc = "accepted"
    /\ UNCHANGED adminVars
    /\ LET target_dates == get_target_dates(config, <<>>, now)
           target_date == target_dates[1]
           post_at == now + Duration_seconds(config.instant_delay)
       IN  requests' = Append(requests,
               [post_at |-> post_at, member |-> selected_member[1],
                target_day |-> date(target_date)])
    /\ \E response_ok \in BOOLEAN :
           pc' = IF response_ok THEN "rerolled" ELSE "panicked"
    /\ UNCHANGED <<config, now, jokeVars, rerollVars, file>>

Next ==
    \/ Tick
    \/ JokeCommand
    \/ ListScheduledPage
    \/ ListScheduledReturn
    \/ JokeOrderViolation
    \/ JokeSkip
    \/ JokeSchedule

Spec == Init /\ [][Next]_vars

----------------------------------------------------------------------------
(* main.rs and bot/mod.rs: the commands that edit the configuration: add   *)
(* member, add channel, add time and config.  `todo` holds the steps that  *)
(* follow the call in progress; when a call returns, the invocation goes   *)
(* on at Head(todo).                                                       *)

\* the locals of SlackBot::joke that the other commands never touch
batchVars == <<input_date_args, scheduled_day_arg, target_datetimes,
               already_scheduled_messages, idx, messages_to_schedule,
               scheduled, candidates>>

\* the user ids Slack may answer with: a member of the roster, a user who
\* is not in it, the bot's own id
SlackUserIds == {"U1", "U4", "B1"}

\* SlackApiResponse<UserLookupResponse>: Ok with user.id, or Err
UserLookupResponses ==
    [ok : {TRUE}, user_id : SlackUserIds] \cup
        {[ok |-> FALSE, user_id |-> ""]}

\* add_member_from_email once the lookup has answered: the id is pushed when
\* the user confirms
add_member_from_email(cfg, response, answer) ==
    IF response.ok /\ answer
    THEN [cfg EXCEPT !.members = Append(@, response.user_id)]
    ELSE cfg

\* seconds in one tick
SecondsPerTick == (24 * 60 * 60) \div TicksPerDay

\* the configuration with its times of day in seconds, as the store has it
BotConfig_in_seconds(cfg) ==
    [cfg EXCEPT !.target_time = @ * SecondsPerTick,
                !.post_time = @ * SecondsPerTick]

\* main: `add member <email>`, then bot.save()
AddMemberCommand ==
    /\ pc = "cli"
    /\ command' = "add"
    /\ options' = [NoOptions EXCEPT !.members = <<"a@x.y">>]
    /\ pc' = "member"
    /\ todo' = <<"save">>
    /\ UNCHANGED <<config, now, requests, jokeVars, rerollVars, file,
                   file_ops, members_fetched, id_list, delete_requests>>

\* add_member_from_email: the lookup, the prompt and the push
AddMemberFromEmail ==
    /\ pc = "member"
    /\ UNCHANGED command
    /\ \E response \in UserLookupResponses, answer \in BOOLEAN :
        /\ ~response.ok => ~answer
        /\ config' = add_member_from_email(config, response, answer)
        /\ outcomes' = Append(outcomes,
                           IF ~response.ok THEN "lookup_error"
                           ELSE IF answer THEN "member_added"
                           ELSE "member_declined")
    /\ pc' = Head(todo)
    /\ todo' = Tail(todo)
    /\ UNCHANGED <<now, requests, batchVars, request_cursor, pages,
                   rerollVars, file, file_ops, members_fetched, id_list,
                   delete_requests, options>>

\* SlackBot::save: to_file writes the whole configuration; the write may fail
Save ==
    /\ pc = "save"
    /\ UNCHANGED command
    /\ \E write_ok \in BOOLEAN :
        /\ file' = IF write_ok
                   THEN TextFile(BotConfig_to_json(BotConfig_in_seconds(config)))
                   ELSE file
        /\ pc' = IF write_ok THEN "saved" ELSE "save_failed"
    /\ file_ops' = Append(file_ops, "write")
    /\ UNCHANGED <<config, now, requests, jokeVars, rerollVars, todo,
                   members_fetched, id_list, delete_requests, options>>

\* the channel ids of the command line: the configured channel and another
ChannelArgs == {"C1", "C2"}

\* main: `add channel <channel>`, then bot.save()
AddChannelCommand ==
    /\ pc = "cli"
    /\ command' = "add"
    /\ \E channel \in ChannelArgs :
           options' = [NoOptions EXCEPT !.channel = <<channel>>]
    /\ pc' = "join"
    /\ todo' = <<"save">>
    /\ UNCHANGED <<config, now, requests, jokeVars, rerollVars, file,
                   file_ops, members_fetched, id_list, delete_requests>>

\* mutant: the members are listed whatever join_conversation answered
add_channel_after_join_always_lists(response_ok) == "members"

\* add_channel after join_conversation: Err returns, Ok goes on to
\* list_members_for_channel
add_channel_after_join(response_ok) ==
    IF response_ok THEN "members" ELSE "return"

\* add_channel up to the answer of join_conversation
JoinConversation ==
    /\ pc = "join"
    /\ UNCHANGED command
    /\ \E response_ok \in BOOLEAN :
        /\ outcomes' = Append(outcomes,
                           IF response_ok THEN "joined" ELSE "join_error")
        /\ IF add_channel_after_join(response_ok) = "members"
           THEN /\ pc' = "members"
                /\ todo' = todo
           ELSE /\ pc' = Head(todo)
                /\ todo' = Tail(todo)
    /\ UNCHANGED <<config, now, requests, batchVars, request_cursor, pages,
                   rerollVars, file, file_ops, members_fetched, id_list,
                   delete_requests, options>>

\* the members a page of conversations.members may list
MemberPageItems == {<<>>, <<"U1", "U4">>, <<"B1">>}

\* SlackApiResponse<ListMembersResponse>
MemberPageResponses ==
    [ok : BOOLEAN, members : MemberPageItems,
     response_metadata : {"absent", "present"},
     next_cursor : {None, "", "c1"}]

\* the end of add_channel: the ids that are neither the bot's nor in the
\* roster are appended, then the channel is overwritten
add_channel_extend(cfg, channel, members) ==
    LET is_new(e) == e # cfg.id /\ e \notin Range(cfg.members)
    IN  [cfg EXCEPT !.members = @ \o SelectSeq(members, is_new),
                    !.channel = channel]

\* list_members_for_channel, one page request per step; when the last page
\* arrives add_channel goes on with Ok(members); the Err arm returns the
\* error
ListMembersPage ==
    /\ pc = "members"
    /\ UNCHANGED command
    /\ \E resp \in MemberPageResponses :
        /\ resp.response_metadata = "absent" => resp.next_cursor = None
        /\ ~resp.ok => /\ resp.members = <<>>
                       /\ resp.response_metadata = "absent"
        /\ page_continues(resp) => pages + 1 < MaxPages
        /\ Len(members_fetched) + Len(resp.members) <= Cardinality(SlackUserIds)
        /\ IF ~resp.ok
           THEN /\ pc' = "members_error"
                /\ UNCHANGED <<pages, members_fetched, request_cursor,
                               config, outcomes, todo>>
           ELSE IF page_continues(resp)
           THEN /\ pages' = pages + 1
                /\ members_fetched' = members_fetched \o resp.members
                /\ request_cursor' =
                      IF resp.response_metadata = "present"
                      THEN resp.next_cursor
                      ELSE request_cursor
                /\ pc' = "members"
                /\ UNCHANGED <<config, outcomes, todo>>
           ELSE /\ pages' = 0
                /\ members_fetched' = <<>>
                /\ request_cursor' = None
                /\ config' = add_channel_extend(config, options.channel[1],
                                 members_fetched \o resp.members)
                /\ outcomes' = Append(outcomes, "members_listed")
                /\ pc' = Head(todo)
                /\ todo' = Tail(todo)
    /\ UNCHANGED <<now, requests, batchVars, rerollVars, file, file_ops,
                   id_list, delete_requests, options>>

\* add_channel when list_members_for_channel returned Err: the members
\* collected are gone, an empty list is added and the channel is overwritten
ListMembersError ==
    /\ pc = "members_error"
    /\ pages' = 0
    /\ members_fetched' = <<>>
    /\ request_cursor' = None
    /\ config' = add_channel_extend(config, options.channel[1], <<>>)
    /\ outcomes' = Append(outcomes, "members_error")
    /\ pc' = Head(todo)
    /\ todo' = Tail(todo)
    /\ UNCHANGED <<now, requests, batchVars, rerollVars, file, file_ops,
                   id_list, delete_requests, options, command>>

\* the times of day of the store used as inputs
ConfigTimes ==
    {NaiveTime_from_hms(11, 30, 0), NaiveTime_from_hms(23, 59, 59)}

\* --target values of `add time`: absent or a "HH:MM:SS" string
TimeArgs == {<<>>} \cup {<<NaiveTime_to_string(t)>> : t \in ConfigTimes}

\* a time of day of the store (seconds), in ticks
NaiveTime_in_ticks(t) == t \div SecondsPerTick

\* add_target_time: the string is parsed with "%H:%M:%S"
add_target_time(cfg, target_time) ==
    [cfg EXCEPT !.target_time =
        NaiveTime_in_ticks(NaiveTime_from_string(target_time)[1])]

\* main: `add time [--target T]`, then bot.save()
AddTimeCommand ==
    /\ pc = "cli"
    /\ command' = "add"
    /\ \E target \in TimeArgs :
        /\ options' = [NoOptions EXCEPT !.target_time = target]
        /\ pc' = IF target = <<>> THEN "save" ELSE "time"
        /\ todo' = IF target = <<>> THEN <<>> ELSE <<"save">>
    /\ UNCHANGED <<config, now, requests, jokeVars, rerollVars, file,
                   file_ops, members_fetched, id_list, delete_requests>>

\* bot.add_target_time(target_time)
AddTargetTime ==
    /\ pc = "time"
    /\ UNCHANGED command
    /\ config' = add_target_time(config, options.target_time[1])
    /\ pc' = Head(todo)
    /\ todo' = Tail(todo)
    /\ UNCHANGED <<now, requests, jokeVars, rerollVars, file, file_ops,
                   members_fetched, id_list, delete_requests, options>>

\* the options of `config`: --members with one or two emails, --channel,
\* --target_time, each present or not
ConfigOptions ==
    [members : {<<>>, <<"a@x.y">>, <<"a@x.y", "b@x.y">>},
     channel : {<<>>} \cup {<<c>> : c \in ChannelArgs},
     target_time : TimeArgs]

\* the calls SlackBot::config makes for its options, in order, up to the
\* prompt
config_steps(opts) ==
    [i \in 1 .. Len(opts.members) |-> "member"] \o
    (IF opts.channel = <<>> THEN <<>> ELSE <<"join">>) \o
    (IF opts.target_time = <<>> THEN <<>> ELSE <<"time">>) \o
    <<"confirm">>

\* main: `config [--members ..] [--channel ..] [--target_time ..]`
ConfigCommand ==
    /\ pc = "cli"
    /\ command' = "config"
    /\ \E opts \in ConfigOptions :
        /\ options' = opts
        /\ pc' = Head(config_steps(opts))
        /\ todo' = Tail(config_steps(opts))
    /\ UNCHANGED <<config, now, requests, jokeVars, rerollVars, file,
                   file_ops, members_fetched, id_list, delete_requests>>

\* mutant: the configuration is saved whatever the answer
config_after_prompt_always_saves(answer) == "save"

\* SlackBot::config after "Save to file ...? y/n"
config_after_prompt(answer) == IF answer THEN "save" ELSE "declined"

\* the end of SlackBot::config: the configuration is printed and saved when
\* the user confirms
ConfigConfirm ==
    /\ pc = "confirm"
    /\ \E answer \in BOOLEAN :
        /\ outcomes' = Append(outcomes,
                           IF answer THEN "confirmed" ELSE "declined")
        /\ pc' = config_after_prompt(answer)
    /\ UNCHANGED <<config, now, requests, batchVars, request_cursor, pages,
                   rerollVars, file, adminVars>>

----------------------------------------------------------------------------
(* bot/mod.rs: check_scheduled_messages and cancel_scheduled_message *)

\* Vec::sort_by on post_at: a stable sort
RECURSIVE sort_by_post_at(_)
sort_by_post_at(messages) ==
    IF messages = <<>> THEN <<>>
    ELSE LET first == Head(messages)
             rest == sort_by_post_at(Tail(messages))
             before(m) == m.post_at < first.post_at
             not_before(m) == ~before(m)
         IN  SelectSeq(rest, before) \o <<first>> \o SelectSeq(rest, not_before)

\* main: `scheduled`
ScheduledCommand ==
    /\ pc = "cli"
    /\ command' = "scheduled"
    /\ pc' = "fetch"
    /\ todo' = <<"print">>
    /\ UNCHANGED <<config, now, requests, jokeVars, rerollVars, file,
                   file_ops, members_fetched, id_list, delete_requests,
                   options>>

\* check_scheduled_messages after the list was fetched: sorted and printed
PrintScheduled ==
    /\ pc = "print"
    /\ already_scheduled_messages' =
           sort_by_post_at(already_scheduled_messages)
    /\ pc' = "printed"
    /\ UNCHANGED <<config, now, requests, input_date_args, scheduled_day_arg,
                   target_datetimes, request_cursor, pages, idx,
                   messages_to_schedule, scheduled, candidates, outcomes,
                   rerollVars, file, adminVars>>

\* the ids of `cancel`: one known id, an unknown id before a known one, two
\* known ids, the same id twice
IdLists ==
    {<<"Q1">>, <<"Q9", "Q1">>, <<"Q1", "Q2">>, <<"Q2", "Q2">>}

\* main: `cancel <id>...`: the list is fetched first
CancelCommand ==
    /\ pc = "cli"
    /\ command' = "cancel"
    /\ \E ids \in IdLists : id_list' = ids
    /\ pc' = "fetch"
    /\ todo' = <<"cancel">>
    /\ UNCHANGED <<config, now, requests, jokeVars, rerollVars, file,
                   file_ops, members_fetched, delete_requests, options>>

\* mutant: any fetched message stands for the id
find_message_first(messages, id) ==
    IF messages = <<>> THEN <<>> ELSE <<messages[1]>>

\* messages.iter().find(|mess| mess.id == id): <<>> for None
find_message(messages, id) ==
    LET matching(m) == m.id = id
    IN  IF SelectSeq(messages, matching) = <<>> THEN <<>>
        ELSE <<Head(SelectSeq(messages, matching))>>

\* one round of the loop of cancel_scheduled_message: the lookup, the
\* prompt, the delete request and its answer
CancelStep ==
    /\ pc = "cancel"
    /\ UNCHANGED command
    /\ LET id == id_list[idx + 1]
           lookup == find_message(already_scheduled_messages, id)
       IN  \E answer \in BOOLEAN, response_ok \in BOOLEAN :
            /\ lookup = <<>> => ~answer
            /\ ~answer => ~response_ok
            /\ delete_requests' =
                  IF answer THEN Append(delete_requests, lookup[1].id)
                  ELSE delete_requests
            /\ outcomes' = Append(outcomes,
                               IF lookup = <<>> THEN "unknown_id"
                               ELSE IF ~answer THEN "kept"
                               ELSE IF response_ok THEN "deleted"
                               ELSE "delete_failed")
    /\ idx' = idx + 1
    /\ pc' = IF idx + 1 = Len(id_list) THEN "cancelled" ELSE "cancel"
    /\ UNCHANGED <<config, now, requests, input_date_args, scheduled_day_arg,
                   target_datetimes, request_cursor, pages,
                   already_scheduled_messages, messages_to_schedule,
                   scheduled, candidates, rerollVars, file, todo, file_ops,
                   members_fetched, id_list, options>>

----------------------------------------------------------------------------
(* The command line as the user may type it: joke with any date strings,   *)
(* reroll, scheduled, cancel, add and config, over rosters of several      *)
(* shapes.                                                                 *)

\* no member, one member, a repeated id, three distinct members
BotRosters ==
    {<<>>, <<"U1">>, <<"U1", "U1", "U2">>, <<"U1", "U2", "U3">>}

\* instant_delay in seconds: the default and one day
InstantDelays == {45, 24 * 60 * 60}

BotConfigs ==
    [members : BotRosters, selected : {<<>>}, channel : {"C1"},
     target_time : {0}, post_time : {0}, advance_days : {1},
     instant_delay : InstantDelays, token : {<<"xoxb">>}, id : {"B1"}]

InitBot ==
    /\ config \in BotConfigs
    /\ now \in {and_time(d, t) : d \in StartDays, t \in Times}
    /\ pc = "cli"
    /\ input_date_args = <<>>
    /\ scheduled_day_arg = <<>>
    /\ target_datetimes = <<>>
    /\ request_cursor = None
    /\ pages = 0
    /\ already_scheduled_messages = <<>>
    /\ idx = 0
    /\ messages_to_schedule = <<>>
    /\ scheduled = <<>>
    /\ requests = <<>>
    /\ candidates = <<>>
    /\ outcomes = <<>>
    /\ exclude = <<>>
    /\ selected_member = <<>>
    /\ proposed = <<>>
    /\ file = NotRead
    /\ todo = <<>>
    /\ file_ops = <<"read">>
    /\ members_fetched = <<>>
    /\ id_list = <<>>
    /\ delete_requests = <<>>
    /\ options = NoOptions
    /\ command = ""

NextBot ==
    \/ Tick
    \/ JokeCommand
    \/ JokeCommandRejected
    \/ ListScheduledPage
    \/ ListScheduledReturn
    \/ JokeOrderViolation
    \/ JokeSkip
    \/ JokeSchedule
    \/ RerollCommand
    \/ RerollDraw
    \/ RerollAnswer
    \/ RerollSchedule
    \/ AddMemberCommand
    \/ AddMemberFromEmail
    \/ AddChannelCommand
    \/ JoinConversation
    \/ ListMembersPage
    \/ ListMembersError
    \/ Save
    \/ AddTimeCommand
    \/ AddTargetTime
    \/ ConfigCommand
    \/ ConfigConfirm
    \/ ScheduledCommand
    \/ PrintScheduled
    \/ CancelCommand
    \/ CancelStep

SpecBot == InitBot /\ [][NextBot]_vars

----------------------------------------------------------------------------
(* The date functions of dates.rs and get_target_dates called on their    *)
(* own, as the unit tests call them, with today on every day of a week.    *)

\* today: Monday to Sunday of the second week
WeekDays == 7 .. 13

DateConfigs ==
    [members : {<<>>}, target_time : Times, post_time : {0},
     advance_days : {1}]

\* input dates: every day of the third week
DateArgLists == UNION {[1 .. n -> 14 .. 20] : n \in 0 .. MaxDates}

\* dates given to validate_date_input, in days from today
ValidationOffsets ==
    {0 - 1, 0, 1, 10, MaxFutureDays - 1, MaxFutureDays, MaxFutureDays + 1}

InitDates ==
    /\ config \in DateConfigs
    /\ now \in {and_time(d, t) : d \in WeekDays, t \in Times}
    /\ pc = "cli"
    /\ input_date_args = <<>>
    /\ scheduled_day_arg = <<>>
    /\ target_datetimes = <<>>
    /\ request_cursor = None
    /\ pages = 0
    /\ already_scheduled_messages = <<>>
    /\ idx = 0
    /\ messages_to_schedule = <<>>
    /\ scheduled = <<>>
    /\ requests = <<>>
    /\ candidates = <<>>
    /\ outcomes = <<>>
    /\ exclude = <<>>
    /\ selected_member = <<>>
    /\ proposed = <<>>
    /\ file = NotRead
    /\ todo = <<>>
    /\ file_ops = <<>>
    /\ members_fetched = <<>>
    /\ id_list = <<>>
    /\ delete_requests = <<>>
    /\ options = NoOptions
    /\ command = ""

\* bot.get_target_dates(input_date_args)
GetTargetDates ==
    /\ pc = "cli"
    /\ UNCHANGED adminVars
    /\ \E args \in DateArgLists :
        /\ input_date_args' = args
        /\ target_datetimes' = get_target_dates(config, args, now)
    /\ pc' = "resolved"
    /\ UNCHANGED <<config, now, scheduled_day_arg, request_cursor, pages,
                   already_scheduled_messages, idx, messages_to_schedule,
                   scheduled, requests, candidates, outcomes, rerollVars,
                   file>>

\* validate_date_input(input): the verdict is kept in `outcomes`
ValidateDateInput ==
    /\ pc = "cli"
    /\ UNCHANGED adminVars
    /\ \E k \in ValidationOffsets :
        /\ input_date_args' = << date(now) + k >>
        /\ outcomes' = << validate_date_input(date(now) + k, now) >>
    /\ pc' = "validated"
    /\ UNCHANGED <<config, now, scheduled_day_arg, target_datetimes,
                   request_cursor, pages, already_scheduled_messages, idx,
                   messages_to_schedule, scheduled, requests, candidates,
                   rerollVars, file>>

NextDates ==
    \/ GetTargetDates
    \/ ValidateDateInput

SpecDates == InitDates /\ [][NextDates]_vars

----------------------------------------------------------------------------
(* The configuration file across an invocation of `add time`: main reads   *)
(* it with BotConfig::new, the command edits the configuration and         *)
(* bot.save() writes it back.                                              *)

\* configurations an earlier invocation may have saved
StoredConfigs ==
    [members : {<<>>, <<"U1", "U2">>}, selected : {<<>>, <<"U1">>},
     channel : {"", "C1"}, target_time : ConfigTimes,
     post_time : ConfigTimes, advance_days : {1, 2}, instant_delay : {45},
     token : {<<>>, <<"">>, <<"xoxb">>}, id : {"", "B1"}]

\* what may be wrong with a document
Defects ==
    {"syntax", "members_missing", "target_time_not_a_time",
     "advance_days_not_a_number", "token_not_a_string"}

corrupt(doc, defect) ==
    CASE defect = "syntax" -> [doc EXCEPT !.syntax_ok = FALSE]
      [] defect = "members_missing" -> [doc EXCEPT !.members = JsonMissing]
      [] defect = "target_time_not_a_time" ->
             [doc EXCEPT !.target_time = JsonString("noon")]
      [] defect = "advance_days_not_a_number" ->
             [doc EXCEPT !.advance_days = JsonString("1")]
      [] defect = "token_not_a_string" ->
             [doc EXCEPT !.token = JsonNumber(1)]

CorruptFiles ==
    {TextFile(corrupt(BotConfig_to_json(c), d)) :
        c \in StoredConfigs, d \in Defects}

Files ==
    {AbsentFile, DeniedFile, UnreadableFile}
        \cup {TextFile(BotConfig_to_json(c)) : c \in StoredConfigs}
        \cup CorruptFiles

InitConfig ==
    /\ config = BotConfig_default
    /\ file \in Files
    /\ pc = "start"
    /\ now = and_time(11, 0)
    /\ input_date_args = <<>>
    /\ scheduled_day_arg = <<>>
    /\ target_datetimes = <<>>
    /\ request_cursor = None
    /\ pages = 0
    /\ already_scheduled_messages = <<>>
    /\ idx = 0
    /\ messages_to_schedule = <<>>
    /\ scheduled = <<>>
    /\ requests = <<>>
    /\ candidates = <<>>
    /\ outcomes = <<>>
    /\ exclude = <<>>
    /\ selected_member = <<>>
    /\ proposed = <<>>
    /\ todo = <<>>
    /\ file_ops = <<>>
    /\ members_fetched = <<>>
    /\ id_list = <<>>
    /\ delete_requests = <<>>
    /\ options = NoOptions
    /\ command = ""

\* main: let config = BotConfig::new()
ConfigNew ==
    /\ pc = "start"
    /\ UNCHANGED command
    /\ config' = BotConfig_new(file)
    /\ pc' = "loaded"
    /\ file_ops' = Append(file_ops, "read")
    /\ UNCHANGED <<now, requests, jokeVars, rerollVars, file>>
    /\ UNCHANGED <<todo, members_fetched, id_list, delete_requests,
                   options>>

\* main: `add time [--target T]`, then bot.save(); the write may fail
AddTime ==
    /\ pc = "loaded"
    /\ command' = "add"
    /\ \E target \in TimeArgs, write_ok \in BOOLEAN :
        LET edited ==
                IF target = <<>> THEN config
                ELSE [config EXCEPT
                         !.target_time = NaiveTime_from_string(target[1])[1]]
        IN  /\ config' = edited
            /\ file' = IF write_ok THEN TextFile(BotConfig_to_json(edited))
                       ELSE file
            /\ pc' = IF write_ok THEN "saved" ELSE "save_failed"
    /\ file_ops' = Append(file_ops, "write")
    /\ UNCHANGED <<now, requests, jokeVars, rerollVars>>
    /\ UNCHANGED <<todo, members_fetched, id_list, delete_requests,
                   options>>

NextConfig ==
    \/ ConfigNew
    \/ AddTime

SpecConfig == InitConfig /\ [][NextConfig]_vars

----------------------------------------------------------------------------
(* Properties *)

Workdays == {"Mon", "Tue", "Wed", "Thu", "Fri"}

\* C1: every target date of get_target_dates falls on Monday..Friday and
\* carries the configured target_time; a weekday input keeps its date, a
\* Saturday input is moved forward 2 days and a Sunday input 1 day, both to
\* the following Monday.
C1_TargetDatesOnWeekdays ==
    pc # "cli" =>
        /\ Len(target_datetimes) =
               IF input_date_args = <<>> THEN 1 ELSE Len(input_date_args)
        /\ \A i \in 1 .. Len(target_datetimes) :
               /\ weekday(date(target_datetimes[i])) \in Workdays
               /\ time(target_datetimes[i]) = config.target_time
        /\ \A i \in 1 .. Len(input_date_args) :
               LET d == input_date_args[i]
                   t == target_datetimes[i]
               IN  /\ weekday(d) \in Workdays => date(t) = d
                   /\ weekday(d) = "Sat" =>
                          date(t) = d + 2 /\ weekday(date(t)) = "Mon"
                   /\ weekday(d) = "Sun" =>
                          date(t) = d + 1 /\ weekday(date(t)) = "Mon"

C1_Witness ==
    /\ pc # "cli"
    /\ Len(input_date_args) = 2
    /\ weekday(input_date_args[1]) = "Sat"
    /\ weekday(input_date_args[2]) = "Sun"
    /\ target_datetimes[1] = target_datetimes[2]

\* C2 as stated: for every target date, with or without --post_on, the
\* instant returned by get_post_at_date is never a Saturday or a Sunday.
C2_PostAtNeverWeekend ==
    \A i \in 1 .. Len(candidates) :
        weekday(date(candidates[i])) \in Workdays

\* C2 amended: when no explicit post_on is given, the instant returned by
\* get_post_at_date is never a Saturday or a Sunday, for all
\* advance_days >= 0.
C2_ComputedPostAtNeverWeekend ==
    scheduled_day_arg = <<>> =>
        \A i \in 1 .. Len(candidates) :
            weekday(date(candidates[i])) \in Workdays

\* a computed candidate whose plain subtraction fell on a Sunday
C2_Witness ==
    /\ scheduled_day_arg = <<>>
    /\ \E i \in 1 .. Len(candidates) :
          /\ weekday(date(target_datetimes[i]) - config.advance_days) = "Sun"
          /\ weekday(date(candidates[i])) = "Fri"

C4_PostedAtPostTime ==
    scheduled_day_arg = <<>> =>
        \A i \in 1 .. Len(requests) :
            time(requests[i].post_at) = config.post_time

Last(q) == q[Len(q)]

\* C5: with an explicit post_on the candidate is that date at the configured
\* post_time; if it is not strictly before the target date the operation
\* fails and neither that target nor a later one is scheduled; if it is
\* strictly before the target it is the post-at instant as it is, with no
\* weekend shift.
C5_ExplicitPostOn ==
    /\ [](pc = "panicked" /\ outcomes # <<>>
              /\ Last(outcomes) = "order_violation"
            => /\ Len(outcomes) = idx + 1
               /\ Len(requests) <= idx
               /\ Len(scheduled) <= idx)
    /\ [][ /\ (scheduled_day_arg # <<>> /\ outcomes' # outcomes) =>
                LET cand == and_time(scheduled_day_arg[1], config.post_time)
                    target == target_datetimes[idx + 1]
                IN  IF cand >= target
                    THEN /\ pc' = "panicked"
                         /\ Last(outcomes') = "order_violation"
                         /\ requests' = requests
                         /\ scheduled' = scheduled
                    ELSE /\ candidates' = Append(candidates, cand)
                         /\ Last(outcomes') # "order_violation"
           /\ pc = "panicked" => requests' = requests /\ scheduled' = scheduled
         ]_vars

\* the first target is scheduled, the second is refused by the order check
C5_Witness ==
    /\ scheduled_day_arg # <<>>
    /\ pc = "panicked"
    /\ outcomes = <<"scheduled", "order_violation">>
    /\ Len(requests) = 1

\* C6: every schedule_message request of joke has a post-at instant strictly
\* later than the clock read when its candidate was checked; a candidate
\* with post_at <= now is skipped, nothing is sent for it and the batch goes
\* on with the next target date.
C6_OnlyFuturePostAt ==
    [][ (outcomes' # outcomes /\ candidates' # candidates) =>
            LET c == Last(candidates')
            IN  /\ c <= now =>
                     /\ requests' = requests
                     /\ scheduled' = scheduled
                     /\ Last(outcomes') = "too_late"
                     /\ idx' = idx + 1
                     /\ pc' = IF idx' = Len(target_datetimes)
                              THEN "done" ELSE "loop"
                /\ requests' # requests =>
                     /\ requests' = Append(requests, Last(requests'))
                     /\ Last(requests').post_at = c
                     /\ c > now
      ]_vars

\* a target whose post-at instant is exactly `now` is skipped, the next
\* one is scheduled
C6_Witness ==
    /\ outcomes = <<"too_late", "scheduled">>
    /\ candidates[1] = now
    /\ Len(requests) = 1

\* C7: joke sends no request for a candidate whose post-at date equals the
\* post-at date of any message of the fetched list, and a candidate that
\* matches no fetched message is not rejected as a remote duplicate.
C7_NoRemoteDuplicate ==
    /\ \A i \in 1 .. Len(requests) :
          \A k \in 1 .. Len(already_scheduled_messages) :
              date(already_scheduled_messages[k].post_at)
                  # date(requests[i].post_at)
    /\ \A i \in 1 .. Len(candidates) :
          outcomes[i] = "remote_duplicate" =>
              \E k \in 1 .. Len(already_scheduled_messages) :
                  date(already_scheduled_messages[k].post_at)
                      = date(candidates[i])

\* two fetched messages on different dates; one candidate matches only the
\* second and is refused, another matches none and is scheduled
C7_Witness ==
    /\ Len(already_scheduled_messages) = 2
    /\ date(already_scheduled_messages[1].post_at)
          # date(already_scheduled_messages[2].post_at)
    /\ Len(outcomes) = 2
    /\ outcomes[1] = "remote_duplicate"
    /\ date(candidates[1]) = date(already_scheduled_messages[2].post_at)
    /\ outcomes[2] = "scheduled"

\* C8 as stated: when two target dates of a batch resolve to the same
\* post-at instant, the first is scheduled and the second is rejected as a
\* local duplicate.
C8_FirstScheduledSecondLocalDuplicate ==
    \A i, j \in 1 .. Len(candidates) :
        (i < j /\ candidates[i] = candidates[j]) =>
            outcomes[i] = "scheduled" /\ outcomes[j] = "local_duplicate"

\* C8 amended: when two target dates of a batch resolve to the same post-at
\* instant and the first is scheduled, the second is not scheduled: it is
\* rejected as a local duplicate, or as too late when the clock has reached
\* the post-at instant in between; the timestamp of a scheduled candidate is
\* in the in-progress list before the next target date is examined.
C8_SecondNeverScheduled ==
    /\ \A i, j \in 1 .. Len(candidates) :
          (i < j /\ candidates[i] = candidates[j]
                 /\ outcomes[i] = "scheduled") =>
              outcomes[j] \in {"local_duplicate", "too_late"}
    /\ \A i \in 1 .. Len(candidates) :
          outcomes[i] = "scheduled" =>
              \E k \in 1 .. Len(messages_to_schedule) :
                  messages_to_schedule[k] = candidates[i]

C8_Witness ==
    /\ outcomes = <<"scheduled", "local_duplicate">>
    /\ candidates[1] = candidates[2]
    /\ target_datetimes[1] = target_datetimes[2]
    /\ messages_to_schedule = <<candidates[1]>>

\* C9: within one joke invocation no two schedule_message requests have
\* post-at instants on the same calendar date, and none has the calendar
\* date of a message of the fetched list.
C9_OnePostPerDate ==
    /\ \A i, j \in 1 .. Len(requests) :
          i # j => date(requests[i].post_at) # date(requests[j].post_at)
    /\ \A i \in 1 .. Len(requests) :
          \A k \in 1 .. Len(already_scheduled_messages) :
              message_date(already_scheduled_messages[k])
                  # date(requests[i].post_at)

\* two requests were sent, for different dates, while a message was fetched
C9_Witness ==
    /\ Len(requests) = 2
    /\ already_scheduled_messages # <<>>
    /\ pc = "done"

\* the targets that came through all checks, in input order
RECURSIVE PassedTargets(_)
PassedTargets(n) ==
    IF n = 0 THEN <<>>
    ELSE IF outcomes[n] = "scheduled"
         THEN Append(PassedTargets(n - 1), target_datetimes[n])
         ELSE PassedTargets(n - 1)

\* C10: a skipped target date (post-at not in the future, remote duplicate,
\* in-batch duplicate) does not stop the batch: the next target date is
\* evaluated, a target that passes all checks is sent to Slack, and when
\* joke returns its successes are exactly the targets that passed, in input
\* order.
C10_SkipDoesNotStopBatch ==
    /\ [](pc = "done" =>
            /\ Len(outcomes) = Len(target_datetimes)
            /\ [i \in 1 .. Len(scheduled) |-> scheduled[i].target_date]
                  = PassedTargets(Len(outcomes)))
    /\ [][ outcomes' # outcomes =>
            /\ Last(outcomes') \in
                   {"too_late", "remote_duplicate", "local_duplicate"} =>
                  /\ idx' = idx + 1
                  /\ pc' = IF idx' = Len(target_datetimes)
                           THEN "done" ELSE "loop"
            /\ (/\ candidates' # candidates
                /\ Last(candidates') > now
                /\ \A k \in 1 .. Len(already_scheduled_messages) :
                      date(already_scheduled_messages[k].post_at)
                          # date(Last(candidates'))
                /\ \A k \in 1 .. Len(messages_to_schedule) :
                      messages_to_schedule[k] # Last(candidates')
                /\ config.members # <<>>) =>
                  /\ Len(requests') = Len(requests) + 1
                  /\ Last(outcomes') \in {"scheduled", "api_error"}
         ]_vars

C10_Witness ==
    /\ pc = "done"
    /\ outcomes = <<"remote_duplicate", "scheduled">>
    /\ Len(scheduled) = 1
    /\ scheduled[1].target_date = target_datetimes[2]

----------------------------------------------------------------------------
(* Properties of the command line and of reroll (SpecBot) *)

\* C11 as stated: an unparseable date string among the inputs of a joke
\* batch aborts only that date; the other, valid dates of the batch are
\* still resolved.
C11_ValidDatesStillResolved ==
    (/\ pc # "cli"
     /\ \E i \in 1 .. Len(input_date_args) :
            ~date_string_parses(input_date_args[i])) =>
        Len(target_datetimes) =
            Cardinality({i \in 1 .. Len(input_date_args) :
                            date_string_parses(input_date_args[i])})

\* C11 amended: an unparseable date string among the --day values aborts
\* the whole invocation: the command line is refused before joke runs, no
\* date of the batch is resolved, nothing is fetched and no request is sent.
C11_BadDateRejectsInvocation ==
    (\E i \in 1 .. Len(input_date_args) :
         ~date_string_parses(input_date_args[i])) =>
        /\ pc = "rejected"
        /\ target_datetimes = <<>>
        /\ already_scheduled_messages = <<>>
        /\ outcomes = <<>>
        /\ requests = <<>>

\* a batch of an unparseable string and a date that passes the validator
C11_Witness ==
    /\ pc = "rejected"
    /\ Len(input_date_args) = 2
    /\ ~date_string_parses(input_date_args[1])
    /\ validate_date_input(input_date_args[2], now) = "Ok"

\* C12: during reroll a member shown to the user is a roster member that
\* was not rejected earlier in the invocation, and the member of the
\* request is the one the user accepted.
C12_ProposedNotRejected ==
    /\ [](proposed # <<>> =>
            /\ Len(requests) <= 1
            /\ \A i \in 1 .. Len(requests) :
                  /\ requests[i].member = Last(proposed)
                  /\ requests[i].member \notin Range(exclude))
    /\ [][ /\ proposed' # proposed =>
                /\ proposed' = Append(proposed, Last(proposed'))
                /\ Last(proposed') \in Range(config.members)
                /\ Last(proposed') \notin Range(exclude)
           /\ (pc' = "accepted" /\ pc # "accepted") =>
                /\ pc = "prompt"
                /\ exclude' = exclude
                /\ selected_member = <<Last(proposed)>>
           /\ (requests' # requests /\ proposed # <<>>) =>
                /\ pc = "accepted"
                /\ Last(requests').member = selected_member[1]
         ]_vars

\* one member was rejected, another was accepted and scheduled
C12_Witness ==
    /\ pc = "rerolled"
    /\ Len(exclude) = 1
    /\ Len(proposed) = 2
    /\ requests[1].member = proposed[2]
    /\ proposed[2] # exclude[1]

\* C13: every roster member is proposed before exhaustion is reported; with
\* 3 distinct members the third is still proposed after 2 rejections.
C13_AllProposedBeforeExhaustion ==
    pc = "excluded_all" =>
        \A m \in Range(config.members) : m \in Range(proposed)

\* C14: once all members have been rejected reroll stops and does not
\* retry: the loop is never at its head with every roster member excluded.
C14_NoRetryOnceAllRejected ==
    (pc = "select" /\ config.members # <<>>) =>
        \E m \in Range(config.members) : m \notin Range(exclude)

\* C15: member selection returns nothing exactly when the roster is empty;
\* with an empty roster joke sends no request for any target date and
\* reroll ends without a prompt and without a request.
C15_EmptyRosterNothingSent ==
    /\ (<<>> \in select_random_member(config.members))
           <=> config.members = <<>>
    /\ config.members = <<>> =>
          /\ requests = <<>>
          /\ scheduled = <<>>
          /\ proposed = <<>>
          /\ pc \notin {"prompt", "accepted", "rerolled", "excluded_all"}
    /\ pc = "no_member" => config.members = <<>>
    /\ \A i \in 1 .. Len(outcomes) :
          outcomes[i] = "no_member" => config.members = <<>>

\* joke went through two target dates with an empty roster
C15_Witness ==
    /\ config.members = <<>>
    /\ pc = "done"
    /\ outcomes = <<"no_member", "no_member">>

----------------------------------------------------------------------------
(* Properties of the date functions (SpecDates) *)

\* C16: for an empty list of input dates get_target_dates returns exactly
\* one date: tomorrow's calendar date with the configured target_time, moved
\* to the Monday after if tomorrow is a Saturday or a Sunday.
C16_NoInputIsTomorrow ==
    (pc = "resolved" /\ input_date_args = <<>>) =>
        LET tomorrow == date(now) + 1
        IN  /\ Len(target_datetimes) = 1
            /\ time(target_datetimes[1]) = config.target_time
            /\ date(target_datetimes[1]) =
                  IF weekday(tomorrow) = "Sat" THEN tomorrow + 2
                  ELSE IF weekday(tomorrow) = "Sun" THEN tomorrow + 1
                  ELSE tomorrow
            /\ weekday(tomorrow) \in {"Sat", "Sun"} =>
                  weekday(date(target_datetimes[1])) = "Mon"

\* called on a Saturday without input: the target is the Monday after
C16_Witness ==
    /\ pc = "resolved"
    /\ input_date_args = <<>>
    /\ weekday(date(now)) = "Sat"
    /\ target_datetimes = << and_time(date(now) + 2, config.target_time) >>

\* C17: the weekend shift of the target is idempotent: applied to a date it
\* has already shifted it returns the same date, whatever the date.
C17_WeekendShiftIdempotent ==
    pc = "resolved" =>
        \A i \in 1 .. Len(target_datetimes) :
            target_weekend_shift(target_datetimes[i]) = target_datetimes[i]

\* a Saturday and a Sunday were shifted
C17_Witness ==
    /\ pc = "resolved"
    /\ Len(input_date_args) = 2
    /\ weekday(input_date_args[1]) = "Sat"
    /\ weekday(input_date_args[2]) = "Sun"
    /\ date(target_datetimes[1]) = input_date_args[1] + 2
    /\ date(target_datetimes[2]) = input_date_args[2] + 1

\* C20: validate_date_input accepts a date exactly when it is strictly after
\* today and less than 120 days after today; today and past dates are
\* refused with "must be in the future", the date 120 days ahead and later
\* ones with "must not be more than 120 days in the future".
C20_ValidDateWindow ==
    pc = "validated" =>
        LET d == input_date_args[1]
            today == date(now)
        IN  /\ outcomes[1] = "Ok" <=> (d > today /\ d < today + 120)
            /\ d <= today => outcomes[1] = "must be in the future"
            /\ d >= today + 120 =>
                  outcomes[1] =
                      "must not be more than 120 days in the future"
            /\ d = today + 10 => outcomes[1] = "Ok"

\* the date 120 days ahead is refused
C20_Witness ==
    /\ pc = "validated"
    /\ input_date_args = << date(now) + 120 >>
    /\ outcomes = << "must not be more than 120 days in the future" >>

----------------------------------------------------------------------------
(* Properties of the configuration store (SpecConfig) *)

\* C18: a BotConfig written to its JSON form and read back is equal field
\* for field (members, selected, channel, target_time, post_time,
\* advance_days, instant_delay, token, id), a missing token and empty lists
\* included.
C18_JsonRoundTrip ==
    pc = "saved" =>
        /\ file.kind = "text"
        /\ BotConfig_from_file(file) = << config >>

\* a configuration without token and with empty lists was saved
C18_Witness ==
    /\ pc = "saved"
    /\ config.token = <<>>
    /\ config.members = <<>>
    /\ config.selected = <<>>
    /\ config.channel = "C1"
    /\ config.target_time = 23 * 3600 + 59 * 60 + 59

\* C19: loading the configuration never fails: when the file is absent,
\* cannot be read or does not parse as a BotConfig, the whole default
\* configuration is used and no field comes from the file.
C19_LoadFallsBackToDefault ==
    /\ pc = "start" => ENABLED ConfigNew
    /\ (/\ pc = "loaded"
        /\ \/ file.kind \in {"absent", "permission_denied", "unreadable"}
           \/ file \in CorruptFiles) =>
          config = [members |-> <<>>, selected |-> <<>>, channel |-> "",
                    target_time |-> 11 * 3600 + 30 * 60,
                    post_time |-> 11 * 3600 + 30 * 60,
                    advance_days |-> 1, instant_delay |-> 45,
                    token |-> <<>>, id |-> ""]

\* a file with one key missing and other values that are not the defaults
C19_Witness ==
    /\ pc = "loaded"
    /\ file.kind = "text"
    /\ file.doc.syntax_ok
    /\ file.doc.members.type = "missing"
    /\ file.doc.channel.str = "C1"
    /\ file.doc.advance_days.num = 2
    /\ config.channel = ""
    /\ config.advance_days = 1

C27_LocalDuplicateOnlyForEqualTargets ==
    scheduled_day_arg = <<>> =>
        \A j \in 1 .. Len(candidates) :
            outcomes[j] = "local_duplicate" =>
                \E i \in 1 .. j - 1 :
                    /\ outcomes[i] = "scheduled"
                    /\ target_datetimes[i] = target_datetimes[j]

\* C27 amended: without an explicit post_on a candidate is rejected as an
\* in-batch duplicate only when its post-at instant equals that of an
\* earlier candidate that was sent; two candidates have the same post-at
\* instant exactly when their target dates are equal or when their post
\* days before the weekend shift (target minus advance_days) both fall on
\* the Friday, Saturday or Sunday of one weekend.
C27_LocalDuplicateForEqualPostAt ==
    scheduled_day_arg = <<>> =>
        /\ \A j \in 1 .. Len(candidates) :
              outcomes[j] = "local_duplicate" =>
                  \E i \in 1 .. j - 1 :
                      /\ outcomes[i] = "scheduled"
                      /\ candidates[i] = candidates[j]
        /\ \A i, j \in 1 .. Len(candidates) :
              LET di == date(target_datetimes[i]) - config.advance_days
                  dj == date(target_datetimes[j]) - config.advance_days
              IN  candidates[i] = candidates[j] <=>
                      \/ target_datetimes[i] = target_datetimes[j]
                      \/ /\ weekday(di) \in {"Fri", "Sat", "Sun"}
                         /\ weekday(dj) \in {"Fri", "Sat", "Sun"}
                         /\ di - dj \in (0 - 2) .. 2

\* a Monday and a Tuesday target with advance_days = 2: both resolve to the
\* Friday before, the second is rejected as an in-batch duplicate
C27_Witness ==
    /\ scheduled_day_arg = <<>>
    /\ config.advance_days = 2
    /\ outcomes = <<"scheduled", "local_duplicate">>
    /\ weekday(date(target_datetimes[1])) = "Mon"
    /\ weekday(date(target_datetimes[2])) = "Tue"
    /\ candidates[1] = candidates[2]

\* C30: reroll sends exactly one schedule_message request when the user
\* accepts a proposed member and none otherwise; the request's post-at is
\* the current instant plus instant_delay seconds, it names the accepted
\* member and tomorrow's weekend-shifted target date, and the scheduled
\* messages are never fetched for a duplicate check.
C30_RerollSendsOneRequest ==
    /\ [](pc \in {"select", "prompt", "accepted", "no_member",
                  "excluded_all", "rerolled"} =>
              (pages = 0 /\ already_scheduled_messages = <<>>))
    /\ [](pc \in {"select", "prompt", "accepted", "no_member",
                  "excluded_all"} => requests = <<>>)
    /\ [](pc = "rerolled" =>
              LET tomorrow == date(now) + 1
                  target_day ==
                      IF weekday(tomorrow) = "Sat" THEN tomorrow + 2
                      ELSE IF weekday(tomorrow) = "Sun" THEN tomorrow + 1
                      ELSE tomorrow
              IN  /\ Len(requests) = 1
                  /\ requests[1].member = Last(proposed)
                  /\ requests[1].post_at =
                        now + (config.instant_delay * TicksPerDay)
                                  \div (24 * 60 * 60)
                  /\ requests[1].target_day = target_day)
    /\ [][pc = "accepted" =>
              (Len(requests') = 1 /\ pc' \in {"rerolled", "panicked"})]_vars
    /\ [][(pc = "prompt" /\ pc' # "accepted") => requests' = <<>>]_vars

\* a member is accepted after another was refused, with a delay of one day
C30_Witness ==
    /\ pc = "rerolled"
    /\ Len(exclude) = 1
    /\ config.instant_delay = 24 * 60 * 60
    /\ Len(requests) = 1
    /\ requests[1].member \notin Range(exclude)
    /\ requests[1].post_at = now + TicksPerDay

\* C21: the bot never adds itself to the roster: starting from a roster
\* that does not contain config.id, after any sequence of add_channel,
\* add_member_from_email and config operations the roster still does not
\* contain config.id.
C21_BotNeverInRoster ==
    config.id \notin Range(config.members)

\* C25: when join_conversation returns an error, add_channel leaves the
\* configuration unchanged (channel and roster) and does not request the
\* member list; the channel is overwritten only after a successful join.
C25_JoinErrorLeavesConfig ==
    /\ [][pc = "join" => config' = config]_vars
    /\ [][(pc = "join" /\ Last(outcomes') = "join_error") =>
              (pc' # "members" /\ pages' = 0)]_vars
    /\ [](pc = "members" => Last(outcomes) = "joined")
    /\ [][config'.channel # config.channel =>
              (pc \in {"members", "members_error"} /\
               Last(outcomes) = "joined")]_vars

\* `add channel C2` with a failed join: the file is written with the old
\* channel and the old roster
C25_Witness ==
    /\ pc = "saved"
    /\ options.channel = <<"C2">>
    /\ outcomes = <<"join_error">>
    /\ config.channel = "C1"
    /\ config.members = <<"U1">>
    /\ file.kind = "text"
    /\ file.doc.channel.str = "C1"

\* C26: cancel processes the ids one by one against the list fetched once
\* at the start: a delete request is sent for an id only if a fetched
\* message has that id and the user confirmed; an unknown id, a refusal or
\* a failed deletion does not prevent the later ids from being processed.
C26_CancelOneByOne ==
    /\ [](pc \in {"cancel", "cancelled"} =>
              LET fetched_ids == {already_scheduled_messages[i].id :
                                     i \in 1 .. Len(already_scheduled_messages)}
                  is_requested(i) ==
                      outcomes[i] \in {"deleted", "delete_failed"}
                  positions == SelectSeq([i \in 1 .. Len(outcomes) |-> i],
                                         is_requested)
              IN  /\ Len(outcomes) = idx
                  /\ idx <= Len(id_list)
                  /\ pc = "cancelled" <=> idx = Len(id_list)
                  /\ \A i \in 1 .. idx :
                        /\ outcomes[i] = "unknown_id" <=>
                               id_list[i] \notin fetched_ids
                        /\ outcomes[i] \in {"unknown_id", "kept", "deleted",
                                            "delete_failed"}
                  /\ delete_requests =
                        [k \in 1 .. Len(positions) |-> id_list[positions[k]]])
    /\ [][pc = "cancel" =>
              /\ idx' = idx + 1
              /\ already_scheduled_messages' = already_scheduled_messages
              /\ pages' = 0]_vars

\* the deletion of the first id fails and the second id is deleted
C26_Witness ==
    /\ pc = "cancelled"
    /\ id_list = <<"Q1", "Q2">>
    /\ outcomes = <<"delete_failed", "deleted">>
    /\ delete_requests = <<"Q1", "Q2">>

\* C22: an invocation reads the configuration file once and writes it at
\* most once, as its last step: joke, reroll, scheduled and cancel never
\* write it; the add subcommands write it once, after the change; config
\* writes it only if the user confirms.
C22_ReadOnceWriteAtEnd ==
    /\ [](file_ops \in {<<"read">>, <<"read", "write">>})
    /\ [](command \in {"joke", "reroll", "scheduled", "cancel"} =>
              file_ops = <<"read">>)
    /\ [](file_ops = <<"read", "write">> =>
              pc \in {"saved", "save_failed"})
    /\ [][pc \notin {"saved", "save_failed", "declined"}]_vars
    /\ [](command = "add" =>
              \/ pc \in {"saved", "save_failed"}
              \/ pc = "save" /\ ENABLED Save
              \/ todo # <<>> /\ Last(todo) = "save" /\ ENABLED NextBot)
    /\ [](command = "config" =>
              /\ pc = "declined" => file_ops = <<"read">>
              /\ pc \in {"save", "saved", "save_failed"} =>
                    Last(outcomes) = "confirmed")
    /\ [][(pc = "confirm" /\ Last(outcomes') = "declined") =>
              (pc' = "declined" /\ file_ops' = <<"read">>)]_vars

\* `config --channel C2` joined the channel and the user declined to save:
\* the configuration changed in memory, the file was not written
C22_Witness ==
    /\ command = "config"
    /\ pc = "declined"
    /\ config.channel = "C2"
    /\ file_ops = <<"read">>
    /\ file.kind = "not_read"

\* C29: list_scheduled_messages never reports an error to its caller: when
\* a page request returns a Slack error the pagination stops and the
\* messages of the pages already received are returned, and joke goes on to
\* its loop with that incomplete list; list_members_for_channel returns the
\* error and the members collected so far are discarded.
C29_ListErrorHandling ==
    /\ [][pc = "fetch" =>
              /\ pc' \in {"fetch", "fetch_error", "loop", "print", "cancel"}
              /\ Len(already_scheduled_messages') >=
                     Len(already_scheduled_messages)
              /\ SubSeq(already_scheduled_messages', 1,
                        Len(already_scheduled_messages)) =
                     already_scheduled_messages]_vars
    /\ [][pc = "fetch_error" =>
              /\ already_scheduled_messages' = already_scheduled_messages
              /\ pc' = Head(todo)
              /\ pc' \in {"loop", "print", "cancel"}
              /\ command = "joke" => pc' = "loop"]_vars
    /\ [][pc = "members_error" =>
              /\ config'.members = config.members
              /\ members_fetched' = <<>>
              /\ Last(outcomes') = "members_error"]_vars

\* joke: the second page request fails after a first page with one message
C29_Witness ==
    /\ command = "joke"
    /\ pc = "fetch_error"
    /\ pages = 1
    /\ Len(already_scheduled_messages) = 1

\* C23: the pagination loops of list_scheduled_messages and
\* list_members_for_channel request their pages one after another, and
\* every request after the first carries the next_cursor of the previous
\* page.
C23_RequestCarriesPreviousCursor ==
    (pc \in {"fetch", "members"} /\ pages >= 1) =>
        request_cursor \notin {None, ""}

\* C24: a pagination loop ends as soon as a successful page carries no
\* non-empty next cursor (response_metadata absent, next_cursor absent or
\* next_cursor empty): it goes round again only with a cursor it has not
\* requested before.
C24_LoopEndsWithoutNextCursor ==
    [][(pc \in {"fetch", "members"} /\ pc' = pc) =>
          (request_cursor' \notin {None, ""} /\
           request_cursor' # request_cursor)]_vars
====
